---- MODULE Spec2Model ----
(***************************************************************************)
(* Check-aggregation engine of omnibioai-control-center.                   *)
(*                                                                         *)
(* Two variants of the engine live in the repository and both are modelled *)
(* here, in one state machine whose handlers never interleave:             *)
(*   - the backend (deploy/control-center/backend): /summary and /services *)
(*     run run_all_checks (sequential loop over settings.services, probes  *)
(*     check_http / check_tcp), run_disk_checks and the status reducer;    *)
(*   - the legacy app (app/main.py): /health runs _run_checks, which       *)
(*     gathers seven coroutines under a total timeout.                     *)
(*                                                                         *)
(* Python values are encoded so that every field has one TLA+ type:        *)
(*   - a configuration value is a record [tag, s, n]: tag "absent" (key    *)
(*     not in the mapping), "none" (None), "str" (text in s), "int"        *)
(*     (number in n);                                                      *)
(*   - latency_ms / status_code None is the number None_ (-1);             *)
(*   - an exception is a record [cls, text], str(e) being text.            *)
(***************************************************************************)
EXTENDS Integers, Sequences, FiniteSets, TLC

(***************************************************************************)
(* Bounds of the model.                                                    *)
(***************************************************************************)
\* most checks (service definitions plus disk checks) in one configuration
MaxChecks == 2

(***************************************************************************)
(* Python values.                                                          *)
(***************************************************************************)
None_ == -1

Absent == [tag |-> "absent", s |-> "", n |-> 0]
NoneV == [tag |-> "none", s |-> "", n |-> 0]
Str(x) == [tag |-> "str", s |-> x, n |-> 0]
Num(k) == [tag |-> "int", s |-> "", n |-> k]

NoExc == [cls |-> "", text |-> ""]
Exc(c, t) == [cls |-> c, text |-> t]

\* dict.get(key): the value, or None when the key is absent
Get(cfg, key) == IF cfg[key].tag = "absent" THEN NoneV ELSE cfg[key]
\* dict.get(key, default): the default only when the key is absent
GetDefault(cfg, key, d) == IF cfg[key].tag = "absent" THEN d ELSE cfg[key]
\* truth value of a Python value: None, "" and 0 are falsy
Truthy(v) == \/ v.tag = "str" /\ v.s # ""
             \/ v.tag = "int" /\ v.n # 0
\* str(v), as an f-string formats it
StrOf(v) == CASE v.tag = "str" -> v.s
              [] v.tag = "int" -> ToString(v.n)
              [] OTHER -> "None"
\* repr(s) of a text without quotes in it
Repr(s) == "'" \o s \o "'"

\* the decimal literals among the configured texts, and their values
DecimalText == [x \in {"6380"} |-> 6380]

\* int(v): [ok, n, exc]
IntOf(v) ==
  CASE v.tag = "int" -> [ok |-> TRUE, n |-> v.n, exc |-> NoExc]
    [] v.tag = "str" /\ v.s \in DOMAIN DecimalText ->
         [ok |-> TRUE, n |-> DecimalText[v.s], exc |-> NoExc]
    [] v.tag = "str" ->
         [ok |-> FALSE, n |-> 0,
          exc |-> Exc("ValueError", "invalid literal for int() with base 10: " \o Repr(v.s))]
    [] OTHER ->
         [ok |-> FALSE, n |-> 0,
          exc |-> Exc("TypeError", "int() argument must be a string, a bytes-like object or a real number, not 'NoneType'")]

\* float(v): [ok, n, exc]; the configured numbers are whole
FloatOf(v) ==
  CASE v.tag = "int" -> [ok |-> TRUE, n |-> v.n, exc |-> NoExc]
    [] v.tag = "str" /\ v.s \in DOMAIN DecimalText ->
         [ok |-> TRUE, n |-> DecimalText[v.s], exc |-> NoExc]
    [] v.tag = "str" ->
         [ok |-> FALSE, n |-> 0,
          exc |-> Exc("ValueError", "could not convert string to float: " \o Repr(v.s))]
    [] OTHER ->
         [ok |-> FALSE, n |-> 0,
          exc |-> Exc("TypeError", "float() argument must be a string or a real number, not 'NoneType'")]

\* str.lower() on the configured kind texts
Lower(s) == CASE s = "HTTP" -> "http"
              [] s = "MySQL" -> "mysql"
              [] s = "Weird" -> "weird"
              [] OTHER -> s

(***************************************************************************)
(* CheckResult and what a call does: return a result or raise.             *)
(***************************************************************************)
Result(name, type, target, status, latency_ms, message) ==
  [name |-> name, type |-> type, target |-> target, status |-> status,
   latency_ms |-> latency_ms, message |-> message]

NullResult == Result("", "", "", "", None_, "")

NoWire == [kind |-> "none", code |-> 0, redirect_to |-> 0, body_ok |-> TRUE, err |-> NoExc]

\* a call that returned r, having seen io on the network (NoWire: no I/O);
\* ops lists the I/O calls the probe made, in order
Return(r, io) == [kind |-> "return", result |-> r, exc |-> NoExc, io |-> io, ops |-> << >>]
\* a call that raised e
Raise(e, io) == [kind |-> "raise", result |-> NullResult, exc |-> e, io |-> io, ops |-> << >>]
\* the call out, having made the I/O calls ops
WithOps(out, ops) == [out EXCEPT !.ops = ops]

(***************************************************************************)
(* The network, as a probe sees it.  An HTTP target answers with a status  *)
(* code (a redirect carries the code of the response behind its Location,  *)
(* redirect_to, or 0 when it has no Location; the body read may fail after *)
(* the headers arrived), or the request fails in transport.  A TCP target  *)
(* accepts the connection or the connect fails.                            *)
(***************************************************************************)
Codes == {200, 302, 304, 404, 500}
RedirectCodes == {301, 302, 303, 307, 308}

Reason(code) == CASE code = 200 -> "OK"
                  [] code = 302 -> "Found"
                  [] code = 304 -> "Not Modified"
                  [] code = 404 -> "Not Found"
                  [] code = 500 -> "Internal Server Error"
                  [] OTHER -> ""

ConnRefused == Exc("URLError", "<urlopen error [Errno 111] Connection refused>")
DnsFailure == Exc("URLError", "<urlopen error [Errno -2] Name or service not known>")
ReadTimeout == Exc("TimeoutError", "timed out")
BodyReset == Exc("ConnectionResetError", "[Errno 104] Connection reset by peer")
TransportErrors == {ConnRefused, DnsFailure, ReadTimeout}

Answer(code, to, body) ==
  [kind |-> "answer", code |-> code, redirect_to |-> to, body_ok |-> body, err |-> NoExc]
Fail(e) == [kind |-> "fail", code |-> 0, redirect_to |-> 0, body_ok |-> TRUE, err |-> e]

HttpWire ==
  {Answer(c, 0, TRUE) : c \in Codes}
    \cup {Answer(200, 0, FALSE), Answer(302, 200, TRUE), Answer(302, 404, TRUE)}
    \cup {Fail(e) : e \in TransportErrors}

\* measured latencies, in ms
Latencies == {0, 3}

HTTPError(code) == Exc("HTTPError", "HTTP Error " \o ToString(code) \o ": " \o Reason(code))

\* urllib.request.urlopen followed by resp.read(64) and resp.status:
\* [ok, code, exc].  The default opener hands every response outside
\* [200,300) to its error handlers: a redirect with a Location is followed,
\* anything else raises HTTPError.
urlopen(wire) ==
  LET final == IF wire.code \in RedirectCodes /\ wire.redirect_to # 0
               THEN wire.redirect_to ELSE wire.code
  IN  IF wire.kind = "fail" THEN [ok |-> FALSE, code |-> 0, exc |-> wire.err]
      ELSE IF ~(200 <= final /\ final < 300)
           THEN [ok |-> FALSE, code |-> 0, exc |-> HTTPError(final)]
      ELSE IF ~wire.body_ok THEN [ok |-> FALSE, code |-> 0, exc |-> BodyReset]
      ELSE [ok |-> TRUE, code |-> final, exc |-> NoExc]

\* mutant of ErrorMessage: str(e) alone, the class name dropped
ErrorMessage_text_only(e) == e.text

\* f"{type(e).__name__}: {e}"
ErrorMessage(e) == e.cls \o ": " \o e.text

\* mutant of ElapsedMs: a clock that was set back between the two readings
ElapsedMs_clock_set_back(ms) == ms - 5

\* int((time.perf_counter() - start) * 1000), the clock having advanced by ms
ElapsedMs(ms) == ms

(***************************************************************************)
(* checks/http.py                                                          *)
(***************************************************************************)
\* the I/O calls of check_http once it has a url: one urlopen, inside the try
HttpOps == <<"urlopen">>

check_http(name, cfg, wire, ms) ==
  LET url == Get(cfg, "url")
      timeout_s == FloatOf(GetDefault(cfg, "timeout_s", Num(2)))
      resp == urlopen(wire)
      latency_ms == ElapsedMs(ms)
  IN  IF ~timeout_s.ok THEN Raise(timeout_s.exc, NoWire)
      ELSE IF ~Truthy(url)
           THEN Return(Result(name, "http", "-", "DOWN", None_, "Missing 'url' in config"), NoWire)
      ELSE IF resp.ok
           THEN IF 200 <= resp.code /\ resp.code < 400
                THEN WithOps(Return(Result(name, "http", url.s, "UP", latency_ms,
                                           "HTTP " \o ToString(resp.code)), wire), HttpOps)
                ELSE WithOps(Return(Result(name, "http", url.s, "WARN", latency_ms,
                                           "HTTP " \o ToString(resp.code)), wire), HttpOps)
      ELSE WithOps(Return(Result(name, "http", url.s, "DOWN", latency_ms,
                                 ErrorMessage(resp.exc)), wire), HttpOps)

(***************************************************************************)
(* checks/tcp.py                                                           *)
(***************************************************************************)
TcpRefused == Exc("ConnectionRefusedError", "[Errno 111] Connection refused")
TcpTimeout == Exc("TimeoutError", "timed out")
TcpWire == {[kind |-> "connected", code |-> 0, redirect_to |-> 0, body_ok |-> TRUE, err |-> NoExc],
            Fail(TcpRefused), Fail(TcpTimeout)}

\* mutant of TcpOps: the socket is closed only when the connect returned
TcpOps_close_on_success_only(wire) ==
  IF wire.kind = "connected" THEN <<"socket", "settimeout", "connect", "close">>
                             ELSE <<"socket", "settimeout", "connect">>

\* mutant of TcpOps: a connect that raised is tried once more
TcpOps_retry_on_failure(wire) ==
  IF wire.kind = "connected" THEN <<"socket", "settimeout", "connect", "close">>
                             ELSE <<"socket", "settimeout", "connect", "connect", "close">>

\* mutant of check_tcp: the socket is made and connected whatever the host
check_tcp_probe_first(name, host, port, kind, wire, ms) ==
  LET target == StrOf(host) \o ":" \o ToString(port)
  IN  IF wire.kind = "connected"
      THEN WithOps(Return(Result(name, kind, target, "UP", ElapsedMs(ms), "TCP connect ok"),
                          wire), <<"socket", "settimeout", "connect", "close">>)
      ELSE WithOps(Return(Result(name, kind, target, "DOWN", ElapsedMs(ms),
                                 ErrorMessage(wire.err)), wire),
                   <<"socket", "settimeout", "connect", "close">>)

\* mutant of check_tcp: a failed connect is reported as WARN
check_tcp_warn_on_failure(name, host, port, kind, wire, ms) ==
  LET target == StrOf(host) \o ":" \o ToString(port)
  IN  IF ~Truthy(host)
      THEN Return(Result(name, kind, target, "DOWN", None_, "Missing host"), NoWire)
      ELSE IF wire.kind = "connected"
           THEN WithOps(Return(Result(name, kind, target, "UP", ElapsedMs(ms), "TCP connect ok"),
                               wire), <<"socket", "settimeout", "connect", "close">>)
           ELSE WithOps(Return(Result(name, kind, target, "WARN", ElapsedMs(ms),
                                      ErrorMessage(wire.err)), wire),
                        <<"socket", "settimeout", "connect", "close">>)

\* the socket calls of check_tcp once it has a host: the socket is created
\* before the try, connected inside it and closed in the finally, whether
\* the connect returned or raised
TcpOps(wire) == <<"socket", "settimeout", "connect", "close">>

check_tcp(name, host, port, kind, wire, ms) ==
  LET target == StrOf(host) \o ":" \o ToString(port)
      latency_ms == ElapsedMs(ms)
  IN  IF ~Truthy(host)
      THEN Return(Result(name, kind, target, "DOWN", None_, "Missing host"), NoWire)
      ELSE IF wire.kind = "connected"
           THEN WithOps(Return(Result(name, kind, target, "UP", latency_ms, "TCP connect ok"),
                               wire), TcpOps(wire))
           ELSE WithOps(Return(Result(name, kind, target, "DOWN", latency_ms,
                                      ErrorMessage(wire.err)), wire), TcpOps(wire))

(***************************************************************************)
(* Settings: the service definitions and disk checks a configuration file  *)
(* can hold.  settings.services is an ordered mapping name -> cfg, so the  *)
(* names are distinct: definition i is named ServiceName(i).               *)
(***************************************************************************)
ServiceCfg(type, url, host, port, timeout_s) ==
  [type |-> type, url |-> url, host |-> host, port |-> port, timeout_s |-> timeout_s]

OkUrl == "http://ok-stub"

ServiceCfgs ==
  { ServiceCfg(Str("http"), Str(OkUrl), Absent, Absent, Num(5)),
    ServiceCfg(Str("HTTP"), Absent, Absent, Absent, Absent),
    ServiceCfg(Str("http"), Str(""), Absent, Absent, Str("6380")),
    ServiceCfg(Str("http"), Str(OkUrl), Absent, Absent, Str("abc")),
    ServiceCfg(Str("http"), Absent, Absent, Absent, Str("abc")),
    ServiceCfg(Str("mysql"), Absent, Str("db"), Absent, Absent),
    ServiceCfg(Str("MySQL"), Absent, Absent, Num(3306), Absent),
    ServiceCfg(Str("mysql"), Absent, Str("db"), Str("abc"), Absent),
    ServiceCfg(Str("redis"), Absent, Str("cache"), Str("6380"), Absent),
    ServiceCfg(Str("redis"), Absent, Str("cache"), NoneV, Absent),
    ServiceCfg(Str("tcp"), Absent, Str("db"), Num(5432), Absent),
    ServiceCfg(Str("Weird"), Absent, Absent, Absent, Absent),
    ServiceCfg(Str(""), Str(OkUrl), Absent, Absent, Absent),
    ServiceCfg(Absent, Absent, Absent, Absent, Absent) }

ServiceName(i) == "s" \o ToString(i)

DiskCfg(path, warn) == [path |-> path, warn_pct_free_below |-> warn]

DiskCfgs ==
  { DiskCfg(Str("/"), Absent),
    DiskCfg(Str("/data"), Num(99)),
    DiskCfg(Str("/"), Str("abc")),
    DiskCfg(Absent, Num(10)) }

\* shutil.disk_usage(path): the usage, or an OSError
Usage(free, total) == [ok |-> TRUE, free |-> free, total |-> total, exc |-> NoExc]
NoSuchPath == Exc("FileNotFoundError", "[Errno 2] No such file or directory")
DiskWire == {Usage(50, 100), Usage(10, 100), Usage(5, 100), Usage(0, 0),
             [ok |-> FALSE, free |-> 0, total |-> 0, exc |-> NoSuchPath]}
NoDiskIO == [ok |-> FALSE, free |-> 0, total |-> 0, exc |-> NoExc]

(***************************************************************************)
(* State.                                                                  *)
(***************************************************************************)
VARIABLES
  handler,          \* the endpoint being served: "none", "summary", "services", "health"
  pc,               \* where the handler is
  services,         \* settings.services: sequence of [name, cfg]
  disk_checks,      \* settings.system["disk_checks"]: sequence of cfg
  service_results,  \* run_all_checks: results
  disk_results,     \* run_disk_checks: results
  wire_log,         \* what the network did for definition i (NoWire: no I/O)
  disk_log,         \* what the filesystem did for disk check i (NoDiskIO: no I/O)
  ops_log,          \* the I/O calls the probe of definition i made, in order
  overall,          \* summary: overall ("" before the reducer ran)
  fault,            \* the exception that left the handler (NoExc: none)
  tasks,            \* _run_checks: task i is "new", "pending", "closing", "done", "cancelled"
  task_ops,         \* legacy: the connection calls task i has made, in order
  task_results,     \* _run_checks: the value task i returned
  config,           \* the configuration file: what load_settings() reads
  previous,         \* what the request before this one returned (done: there was one)
  response          \* _run_checks: the "services" list of the response

vars == <<handler, pc, services, disk_checks, service_results, disk_results,
          wire_log, disk_log, ops_log, overall, fault, tasks, task_results, task_ops,
          config, previous, response>>

backend_vars == <<services, disk_checks, service_results, disk_results, wire_log,
                  disk_log, ops_log, overall, config, previous>>
legacy_vars == <<tasks, task_results, task_ops, response>>

(***************************************************************************)
(* core/runner.py: run_all_checks                                          *)
(***************************************************************************)
\* (cfg.get("type") or "").lower()
\* mutant of ctype_of: the kind is compared as configured, not lower-cased
ctype_of_as_configured(cfg) ==
  LET t == Get(cfg, "type") IN IF Truthy(t) THEN t.s ELSE ""

ctype_of(cfg) ==
  LET t == Get(cfg, "type") IN Lower(IF Truthy(t) THEN t.s ELSE "")

\* mutant of after_get: the loop empties the dict it was given
after_clear(cfg) == [k \in DOMAIN cfg |-> Absent]

\* the dict a definition is after its iteration: the loop and the probes
\* only read it, with cfg.get
after_get(cfg) == cfg

\* cfg.get("url") or f'{cfg.get("host")}:{cfg.get("port")}'
unknown_target(cfg) ==
  IF Truthy(Get(cfg, "url")) THEN Get(cfg, "url").s
  ELSE StrOf(Get(cfg, "host")) \o ":" \o StrOf(Get(cfg, "port"))

\* mutant of unknown_result: the type echoes ctype without the "unknown" fallback
unknown_result_no_fallback(name, cfg) ==
  Result(name, ctype_of(cfg), unknown_target(cfg), "WARN", None_,
         "Unknown check type: " \o Repr(ctype_of(cfg)))

\* the else branch: the result for a kind that matched no probe
unknown_result(name, cfg) ==
  LET ctype == ctype_of(cfg)
  IN  Result(name, IF ctype # "" THEN ctype ELSE "unknown", unknown_target(cfg),
             "WARN", None_, "Unknown check type: " \o Repr(ctype))

\* check_tcp(name=name, host=cfg.get("host"), port=int(cfg.get("port", dflt)), kind=kind)
tcp_family(name, cfg, kind, dflt, wire, ms) ==
  LET port == IntOf(GetDefault(cfg, "port", Num(dflt)))
  IN  IF ~port.ok THEN Raise(port.exc, NoWire)
      ELSE check_tcp(name, Get(cfg, "host"), port.n, kind, wire, ms)

\* the body of the loop, for one (name, cfg): the call it makes
run_check(name, cfg, wire, ms) ==
  LET ctype == ctype_of(cfg)
  IN  IF ctype = "http" THEN check_http(name, cfg, wire, ms)
      ELSE IF ctype = "mysql" THEN tcp_family(name, cfg, "mysql", 3306, wire, ms)
      ELSE IF ctype = "redis" THEN tcp_family(name, cfg, "redis", 6379, wire, ms)
      ELSE Return(unknown_result(name, cfg), NoWire)

\* mutant of append: the new result goes to the front
append_front(results, r) == <<r>> \o results

\* results.append(r)
append(results, r) == Append(results, r)

(***************************************************************************)
(* checks/disk.py: run_disk_checks                                         *)
(***************************************************************************)
\* f"{x:.1f}" of free/total*100, and of a whole number
PctText(free, total) ==
  LET t == IF total = 0 THEN 0 ELSE (free * 2000 + total) \div (2 * total)
  IN  ToString(t \div 10) \o "." \o ToString(t % 10)
WholeText(n) == ToString(n) \o ".0"

\* mutant of BelowThreshold: free_pct <= warn_pct_free_below
BelowThreshold_inclusive(free, total, warn) ==
  IF total = 0 THEN 0 <= warn ELSE free * 100 <= warn * total

\* free_pct < warn_pct_free_below, free_pct being 0.0 when total is 0
BelowThreshold(free, total, warn) ==
  IF total = 0 THEN 0 < warn ELSE free * 100 < warn * total

\* the entry appended for path
disk_result(path, status, message) ==
  Result("disk:" \o path, "disk", path, status, None_, message)

\* mutant of disk_failure: a path that cannot be read is DOWN
disk_failure_down(path, e) == disk_result(path, "DOWN", ErrorMessage(e))

\* the entry of the except branch: shutil.disk_usage raised e
disk_failure(path, e) == disk_result(path, "WARN", ErrorMessage(e))

\* warn_pct_free_below when the cfg has none
DefaultWarnPct == 10

\* the body of the loop, for one cfg: "skip" (continue), a result, or a raise
disk_check(cfg, usage) ==
  LET path == Get(cfg, "path")
      warn == FloatOf(GetDefault(cfg, "warn_pct_free_below", Num(DefaultWarnPct)))
      pct == PctText(usage.free, usage.total)
  IN  IF ~warn.ok THEN [kind |-> "raise", result |-> NullResult, exc |-> warn.exc, io |-> NoDiskIO]
      ELSE IF ~Truthy(path)
           THEN [kind |-> "skip", result |-> NullResult, exc |-> NoExc, io |-> NoDiskIO]
      ELSE IF ~usage.ok
           THEN [kind |-> "return", exc |-> NoExc, io |-> usage,
                 result |-> disk_failure(path.s, usage.exc)]
      ELSE IF BelowThreshold(usage.free, usage.total, warn.n)
           THEN [kind |-> "return", exc |-> NoExc, io |-> usage,
                 result |-> disk_result(path.s, "WARN",
                                        "Low disk: " \o pct \o "% free (< " \o WholeText(warn.n) \o "%)")]
      ELSE [kind |-> "return", exc |-> NoExc, io |-> usage,
            result |-> disk_result(path.s, "UP", pct \o "% free")]

(***************************************************************************)
(* api/routes_summary.py: the status reducer                               *)
(***************************************************************************)
RECURSIVE scan_first_wins(_, _, _)
\* mutant of scan: the loop also stops at the first WARN
scan_first_wins(rs, i, acc) ==
  IF i > Len(rs) THEN acc
  ELSE IF rs[i].status = "DOWN" THEN "DOWN"
  ELSE IF rs[i].status = "WARN" THEN "WARN"
  ELSE scan_first_wins(rs, i + 1, acc)

RECURSIVE scan_last_wins(_, _, _)
\* the loop without its break and without the guard on WARN
scan_last_wins(rs, i, acc) ==
  IF i > Len(rs) THEN acc
  ELSE IF rs[i].status = "DOWN" THEN scan_last_wins(rs, i + 1, "DOWN")
  ELSE IF rs[i].status = "WARN" THEN scan_last_wins(rs, i + 1, "WARN")
  ELSE scan_last_wins(rs, i + 1, acc)

\* mutant of summary_overall: a WARN after a DOWN downgrades the overall status
summary_overall_last_wins(rs) == scan_last_wins(rs, 1, "UP")

RECURSIVE scan(_, _, _)
\* the for loop from position i on, overall being the value so far
scan(rs, i, acc) ==
  IF i > Len(rs) THEN acc
  ELSE IF rs[i].status = "DOWN" THEN "DOWN"
  ELSE IF rs[i].status = "WARN" /\ acc # "DOWN" THEN scan(rs, i + 1, "WARN")
  ELSE scan(rs, i + 1, acc)

summary_overall(rs) == scan(rs, 1, "UP")

(***************************************************************************)
(* app/main.py: the legacy probes and _run_checks                          *)
(***************************************************************************)
Check(name, kind, target, path) == [name |-> name, kind |-> kind, target |-> target, path |-> path]

\* _checks(), with the default targets
checks ==
  << Check("workbench", "http", "http://omnibioai:8000", "/"),
     Check("tes", "http", "http://tes:8081", "/health"),
     Check("toolserver", "http", "http://toolserver:9090", "/health"),
     Check("model-registry", "http", "http://model-registry:8095", "/health"),
     Check("lims-x", "http", "http://lims-x:7000", "/"),
     Check("mysql", "tcp", "mysql:3306", ""),
     Check("redis", "tcp", "redis:6379", "") >>

\* c.target.split(":") of the tcp targets
SplitHostPort(target) == CASE target = "mysql:3306" -> [host |-> "mysql", port |-> 3306]
                           [] target = "redis:6379" -> [host |-> "redis", port |-> 6379]
                           [] OTHER -> [host |-> target, port |-> 0]

\* base.rstrip("/"): none of the default targets ends with a slash
RStripSlash(base) == CASE base = "http://tes:8081/" -> "http://tes:8081"
                       [] OTHER -> base

LegacyResult(name, type, url, host, port, ok, status_code, latency_ms, error) ==
  [name |-> name, type |-> type, url |-> url, host |-> host, port |-> port, ok |-> ok,
   status_code |-> status_code, latency_ms |-> latency_ms, error |-> error]

NullLegacyResult == LegacyResult("", "", "", "", 0, FALSE, None_, None_, "")
NoError == "None"

\* what httpx does with client.get(url): any response is returned as it is
\* (redirects are not followed), a transport failure raises
ConnectError == Exc("ConnectError", "All connection attempts failed")
LegacyHttpWire == {Answer(200, 0, TRUE), Answer(302, 200, TRUE), Answer(404, 0, TRUE),
                   Fail(ConnectError)}
LegacyTcpWire == {[kind |-> "connected", code |-> 0, redirect_to |-> 0, body_ok |-> TRUE, err |-> NoExc],
                  Fail(TcpRefused)}
\* the latency the legacy probes measure, in ms
LegacyLatencies == {4}

_check_http(name, base, path, wire, ms) ==
  LET url == RStripSlash(base) \o path
      ok == 200 <= wire.code /\ wire.code < 300
  IN  IF wire.kind = "answer"
      THEN LegacyResult(name, "http", url, "", 0, ok, wire.code, ms,
                        IF ok THEN NoError ELSE "HTTP " \o ToString(wire.code))
      ELSE LegacyResult(name, "http", url, "", 0, FALSE, None_, ms, wire.err.text)

_check_tcp(name, host, port, wire, ms) ==
  IF wire.kind = "connected"
  THEN LegacyResult(name, "tcp", "", host, port, TRUE, None_, ms, NoError)
  ELSE LegacyResult(name, "tcp", "", host, port, FALSE, None_, ms, wire.err.text)

\* the connection calls of _check_tcp up to its second await: open_connection
\* under wait_for, and, when it returned a writer, writer.close() at once
LegacyTcpOps(wire) ==
  IF wire.kind = "connected" THEN <<"open_connection:ok", "writer.close">>
                             ELSE <<"open_connection:err">>

\* gather keeps the value of task i at position i
store(results, i, r) == [results EXCEPT ![i] = r]

(***************************************************************************)
(* Initial state: the process is up and no request is being served.        *)
(***************************************************************************)
\* a request that returned: its lists and what its probes met
Returned(srs, drs, wires, usages) ==
  [done |-> TRUE, service_results |-> srs, disk_results |-> drs,
   wire_log |-> wires, disk_log |-> usages]
\* no request has returned yet
NoRun == [done |-> FALSE, service_results |-> << >>, disk_results |-> << >>,
          wire_log |-> << >>, disk_log |-> << >>]

Init ==
  /\ handler = "none"
  /\ pc = "idle"
  /\ services = << >>
  /\ disk_checks = << >>
  /\ service_results = << >>
  /\ disk_results = << >>
  /\ wire_log = << >>
  /\ disk_log = << >>
  /\ ops_log = << >>
  /\ overall = ""
  /\ fault = NoExc
  /\ tasks = [i \in DOMAIN checks |-> "new"]
  /\ task_results = [i \in DOMAIN checks |-> NullLegacyResult]
  /\ task_ops = [i \in DOMAIN checks |-> << >>]
  /\ response = << >>
  /\ config = [services |-> << >>, disk_checks |-> << >>]
  /\ previous = NoRun

(***************************************************************************)
(* Backend handlers.                                                       *)
(***************************************************************************)
\* load_settings(): the configuration file of the moment
load_settings ==
  \E n \in 0..MaxChecks : \E d \in 0..(MaxChecks - n) :
    \E cs \in [1..n -> ServiceCfgs] : \E ds \in [1..d -> DiskCfgs] :
      /\ services' = [i \in 1..n |-> [name |-> ServiceName(i), cfg |-> cs[i]]]
      /\ disk_checks' = ds
      /\ config' = [services |-> services', disk_checks |-> ds]

\* GET /summary: load_settings(), then run_all_checks(settings)
summary ==
  /\ pc = "idle"
  /\ handler' = "summary"
  /\ load_settings
  /\ pc' = "run_all_checks"
  /\ UNCHANGED <<service_results, disk_results, wire_log, disk_log, ops_log, overall, fault,
                 previous>>
  /\ UNCHANGED legacy_vars

\* GET /services: load_settings(), then run_all_checks(settings)
services_route ==
  /\ pc = "idle"
  /\ handler' = "services"
  /\ load_settings
  /\ pc' = "run_all_checks"
  /\ UNCHANGED <<service_results, disk_results, wire_log, disk_log, ops_log, overall, fault,
                 previous>>
  /\ UNCHANGED legacy_vars

\* the definition the loop of run_all_checks is at
Cursor == Len(wire_log) + 1

\* one iteration of the loop of run_all_checks, the network doing one of wires
Iterate(wires) ==
  \E wire \in wires : \E ms \in Latencies :
    LET def == services[Cursor]
        out == run_check(def.name, def.cfg, wire, ms)
    IN  /\ wire_log' = Append(wire_log, out.io)
        /\ ops_log' = Append(ops_log, out.ops)
        /\ services' = [services EXCEPT ![Cursor].cfg = after_get(@)]
        /\ IF out.kind = "return"
           THEN /\ service_results' = append(service_results, out.result)
                /\ UNCHANGED <<pc, fault>>
           ELSE /\ pc' = "raised"
                /\ fault' = out.exc
                /\ UNCHANGED service_results
        /\ UNCHANGED <<handler, disk_checks, disk_results, disk_log, overall, config, previous>>
        /\ UNCHANGED legacy_vars

AtDefinition == pc = "run_all_checks" /\ Cursor <= Len(services)

run_http == AtDefinition /\ ctype_of(services[Cursor].cfg) = "http" /\ Iterate(HttpWire)

run_mysql == AtDefinition /\ ctype_of(services[Cursor].cfg) = "mysql" /\ Iterate(TcpWire)

run_redis == AtDefinition /\ ctype_of(services[Cursor].cfg) = "redis" /\ Iterate(TcpWire)

run_unknown ==
  /\ AtDefinition
  /\ ctype_of(services[Cursor].cfg) \notin {"http", "mysql", "redis"}
  /\ Iterate({NoWire})

\* return results: /services responds, /summary goes on to run_disk_checks
run_all_checks_return ==
  /\ pc = "run_all_checks"
  /\ Cursor > Len(services)
  /\ pc' = IF handler = "services" THEN "done" ELSE "run_disk_checks"
  /\ UNCHANGED <<handler, fault>>
  /\ UNCHANGED backend_vars
  /\ UNCHANGED legacy_vars

\* the disk check the loop of run_disk_checks is at
DiskCursor == Len(disk_log) + 1

\* one iteration of the loop of run_disk_checks
run_disk_check ==
  /\ pc = "run_disk_checks"
  /\ DiskCursor <= Len(disk_checks)
  /\ \E usage \in DiskWire :
       LET out == disk_check(disk_checks[DiskCursor], usage)
       IN  /\ disk_log' = Append(disk_log, out.io)
           /\ disk_checks' = [disk_checks EXCEPT ![DiskCursor] = after_get(@)]
           /\ CASE out.kind = "return" ->
                     /\ disk_results' = append(disk_results, out.result)
                     /\ UNCHANGED <<pc, fault>>
                [] out.kind = "skip" -> UNCHANGED <<disk_results, pc, fault>>
                [] OTHER ->
                     /\ pc' = "raised"
                     /\ fault' = out.exc
                     /\ UNCHANGED disk_results
  /\ UNCHANGED <<handler, services, service_results, wire_log, ops_log, overall, config,
                 previous>>
  /\ UNCHANGED legacy_vars

\* run_disk_checks returns; the reducer scans service_results + disk_results
\* and /summary responds
summary_return ==
  /\ pc = "run_disk_checks"
  /\ DiskCursor > Len(disk_checks)
  /\ overall' = summary_overall(service_results \o disk_results)
  /\ pc' = "done"
  /\ UNCHANGED <<handler, services, disk_checks, service_results, disk_results,
                 wire_log, disk_log, ops_log, fault, config, previous>>
  /\ UNCHANGED legacy_vars

\* run_all_checks as a function: the loop over defs from the list results,
\* probe i meeting wires[i], every latency measured being ms
RECURSIVE run_all_checks(_, _, _, _)
run_all_checks(results, defs, wires, ms) ==
  IF defs = << >> THEN [kind |-> "return", results |-> results, exc |-> NoExc]
  ELSE LET out == run_check(Head(defs).name, Head(defs).cfg, Head(wires), ms)
       IN  IF out.kind = "raise"
           THEN [kind |-> "raise", results |-> results, exc |-> out.exc]
           ELSE run_all_checks(append(results, out.result), Tail(defs), Tail(wires), ms)

\* run_disk_checks as a function: the loop over cfgs, check i meeting usages[i]
RECURSIVE run_disk_checks(_, _, _)
run_disk_checks(results, cfgs, usages) ==
  IF cfgs = << >> THEN [kind |-> "return", results |-> results, exc |-> NoExc]
  ELSE LET out == disk_check(Head(cfgs), Head(usages))
       IN  CASE out.kind = "raise" -> [kind |-> "raise", results |-> results, exc |-> out.exc]
             [] out.kind = "skip" -> run_disk_checks(results, Tail(cfgs), Tail(usages))
             [] OTHER -> run_disk_checks(append(results, out.result), Tail(cfgs), Tail(usages))

\* the latency the probes of the second request measure, in ms
LaterLatencies == {7}

\* the same route is requested once more, the configuration file and what
\* the probes meet being the same: load_settings() reads the file again,
\* run_all_checks and run_disk_checks start from their own empty lists, and
\* the handler responds
next_request ==
  /\ pc = "done"
  /\ handler \in {"summary", "services"}
  /\ ~previous.done
  /\ previous' = Returned(service_results, disk_results, wire_log, disk_log)
  /\ \E ms \in LaterLatencies :
       LET settings == config
           srs == run_all_checks(<< >>, settings.services, wire_log, ms)
           drs == IF handler = "summary"
                  THEN run_disk_checks(<< >>, settings.disk_checks, disk_log)
                  ELSE [kind |-> "return", results |-> << >>, exc |-> NoExc]
       IN  /\ services' = [i \in DOMAIN settings.services |->
                             [settings.services[i] EXCEPT !.cfg = after_get(@)]]
           /\ disk_checks' = IF handler = "summary"
                             THEN [i \in DOMAIN settings.disk_checks |->
                                     after_get(settings.disk_checks[i])]
                             ELSE settings.disk_checks
           /\ service_results' = srs.results
           /\ disk_results' = drs.results
           /\ ops_log' = [i \in DOMAIN settings.services |->
                            run_check(settings.services[i].name, settings.services[i].cfg,
                                      wire_log[i], ms).ops]
           /\ IF srs.kind = "raise" \/ drs.kind = "raise"
              THEN /\ pc' = "raised"
                   /\ fault' = IF srs.kind = "raise" THEN srs.exc ELSE drs.exc
                   /\ overall' = ""
              ELSE /\ pc' = "done"
                   /\ fault' = fault
                   /\ overall' = IF handler = "summary"
                                 THEN summary_overall(srs.results \o drs.results) ELSE ""
  /\ UNCHANGED <<handler, wire_log, disk_log, config>>
  /\ UNCHANGED legacy_vars

(***************************************************************************)
(* Legacy handler: GET /health (and /health/services, /dashboard) await    *)
(* _run_checks().                                                          *)
(***************************************************************************)
\* the loop creates one coroutine per check and gather schedules them all
health ==
  /\ pc = "idle"
  /\ handler' = "health"
  /\ pc' = "gather"
  /\ tasks' = [i \in DOMAIN checks |-> "pending"]
  /\ UNCHANGED <<task_results, task_ops, response, fault>>
  /\ UNCHANGED backend_vars

\* a pending _check_http coroutine finishes
task_http(i) ==
  /\ pc = "gather"
  /\ tasks[i] = "pending"
  /\ checks[i].kind = "http"
  /\ \E wire \in LegacyHttpWire : \E ms \in LegacyLatencies :
       task_results' = store(task_results, i,
           _check_http(checks[i].name, checks[i].target,
                       IF checks[i].path # "" THEN checks[i].path ELSE "/health", wire, ms))
  /\ tasks' = [tasks EXCEPT ![i] = "done"]
  /\ UNCHANGED <<handler, pc, task_ops, response, fault>>
  /\ UNCHANGED backend_vars

\* a pending _check_tcp coroutine gets the outcome of open_connection: a
\* failure takes it to the except branch and its result; with a writer it
\* closes the writer and waits in wait_closed
task_tcp(i) ==
  /\ pc = "gather"
  /\ tasks[i] = "pending"
  /\ checks[i].kind # "http"
  /\ \E wire \in LegacyTcpWire : \E ms \in LegacyLatencies :
       LET hp == SplitHostPort(checks[i].target)
       IN  /\ task_ops' = [task_ops EXCEPT ![i] = LegacyTcpOps(wire)]
           /\ IF wire.kind = "connected"
              THEN /\ tasks' = [tasks EXCEPT ![i] = "closing"]
                   /\ UNCHANGED task_results
              ELSE /\ tasks' = [tasks EXCEPT ![i] = "done"]
                   /\ task_results' = store(task_results, i,
                          _check_tcp(checks[i].name, hp.host, hp.port, wire, ms))
  /\ UNCHANGED <<handler, pc, response, fault>>
  /\ UNCHANGED backend_vars

\* wait_closed returns (or raises, which is swallowed): the coroutine returns
\* its ok result
task_tcp_closed(i) ==
  /\ pc = "gather"
  /\ tasks[i] = "closing"
  /\ \E wire \in {w \in LegacyTcpWire : w.kind = "connected"} : \E ms \in LegacyLatencies :
       LET hp == SplitHostPort(checks[i].target)
       IN  task_results' = store(task_results, i,
               _check_tcp(checks[i].name, hp.host, hp.port, wire, ms))
  /\ task_ops' = [task_ops EXCEPT ![i] = Append(task_ops[i], "writer.wait_closed")]
  /\ tasks' = [tasks EXCEPT ![i] = "done"]
  /\ UNCHANGED <<handler, pc, response, fault>>
  /\ UNCHANGED backend_vars

TotalTimeout == Exc("TimeoutError", "")

\* TOTAL_TIMEOUT_SECONDS elapse with a task still waiting: wait_for cancels
\* the gather, which cancels every unfinished task at its await, and raises
\* TimeoutError out of _run_checks
gather_timeout ==
  /\ pc = "gather"
  /\ \E i \in DOMAIN tasks : tasks[i] # "done"
  /\ tasks' = [i \in DOMAIN tasks |-> IF tasks[i] # "done" THEN "cancelled" ELSE tasks[i]]
  /\ pc' = "raised"
  /\ fault' = TotalTimeout
  /\ UNCHANGED <<handler, task_results, task_ops, response>>
  /\ UNCHANGED backend_vars

\* every task is done: gather returns the values in the order of the tasks
gather_return ==
  /\ pc = "gather"
  /\ \A i \in DOMAIN tasks : tasks[i] = "done"
  /\ response' = [i \in 1..Len(checks) |-> task_results[i]]
  /\ pc' = "done"
  /\ UNCHANGED <<handler, tasks, task_results, task_ops, fault>>
  /\ UNCHANGED backend_vars

Next ==
  \/ summary
  \/ services_route
  \/ run_http
  \/ run_mysql
  \/ run_redis
  \/ run_unknown
  \/ run_all_checks_return
  \/ run_disk_check
  \/ summary_return
  \/ next_request
  \/ health
  \/ \E i \in DOMAIN checks : task_http(i)
  \/ \E i \in DOMAIN checks : task_tcp(i)
  \/ \E i \in DOMAIN checks : task_tcp_closed(i)
  \/ gather_timeout
  \/ gather_return

Spec == Init /\ [][Next]_vars

(***************************************************************************)
(* Properties.                                                             *)
(***************************************************************************)
Backend == handler \in {"summary", "services"}
Legacy == handler = "health"

\* run_all_checks has returned its list
ServicesReturned == Backend /\ pc \in {"run_disk_checks", "done"}

\* the definitions the loop of run_all_checks has been through
Processed == 1..Len(wire_log)

\* definition i got a result (its iteration did not raise)
HasResult(i) == i <= Len(service_results)

\* C1: the dispatcher returns one result per definition, result i carrying
\* the name of definition i: run_all_checks against settings.services (its
\* list is aligned with the definitions at every point of the loop), and the
\* gather of _run_checks against _checks(), in whatever order the tasks
\* finished.
C1_ResultsInInputOrder ==
  /\ Backend =>
       /\ Len(service_results) <= Len(services)
       /\ \A i \in 1..Len(service_results) : service_results[i].name = services[i].name
  /\ ServicesReturned => Len(service_results) = Len(services)
  /\ (Legacy /\ pc = "done") =>
       /\ Len(response) = Len(checks)
       /\ \A i \in 1..Len(checks) : response[i].name = checks[i].name

\* C1 witness: /services returned two results for two definitions
C1_Witness ==
  /\ handler = "services" /\ pc = "done"
  /\ Len(services) = 2 /\ Len(service_results) = 2
  /\ service_results[1].status # service_results[2].status

\* C2 (as claimed): when the total timeout cancels pending probes, the
\* dispatcher still returns one result per definition, a finished probe
\* keeping its result and a cancelled one resolved to a failed (DOWN,
\* timeout) result.
C2_TimeoutResolvesPerCheck ==
  (\E i \in DOMAIN tasks : tasks[i] = "cancelled") =>
    /\ pc = "done"
    /\ Len(response) = Len(checks)
    /\ \A i \in DOMAIN tasks :
         /\ tasks[i] = "done" => response[i] = task_results[i]
         /\ tasks[i] = "cancelled" => ~response[i].ok

\* C3 (as claimed): no failure of a check leaves run_all_checks or
\* run_disk_checks as an exception, malformed field values included.
C3_NoFaultEscapes == Backend => (pc # "raised" /\ fault = NoExc)

Statuses(rs) == {rs[i].status : i \in 1..Len(rs)}

\* C4: the overall status of /summary over service_results + disk_results is
\* DOWN iff some result is DOWN, WARN iff none is DOWN and some is WARN, and
\* UP otherwise (so UP for no results at all).
C4_OverallPrecedence ==
  (handler = "summary" /\ pc = "done") =>
    LET st == Statuses(service_results \o disk_results)
    IN  /\ overall \in {"UP", "WARN", "DOWN"}
        /\ overall = "DOWN" <=> "DOWN" \in st
        /\ overall = "WARN" <=> ("DOWN" \notin st /\ "WARN" \in st)
        /\ overall = "UP" <=> ("DOWN" \notin st /\ "WARN" \notin st)

\* C4 witness: a DOWN service result followed by a WARN disk result
C4_Witness ==
  /\ handler = "summary" /\ pc = "done"
  /\ Len(service_results) = 1 /\ service_results[1].status = "DOWN"
  /\ Len(disk_results) = 1 /\ disk_results[1].status = "WARN"

Permute(rs, p) == [i \in 1..Len(rs) |-> rs[p[i]]]

\* C5: the reducer gives every permutation of the results of a /summary the
\* overall status it gave the results in their own order.
C5_OverallOrderIndependent ==
  (handler = "summary" /\ pc = "done") =>
    LET rs == service_results \o disk_results
    IN  \A p \in Permutations(1..Len(rs)) : summary_overall(Permute(rs, p)) = overall

\* C5 witness: a WARN ahead of a DOWN, where the scan stops at the second
C5_Witness ==
  /\ handler = "summary" /\ pc = "done"
  /\ Len(service_results) = 2
  /\ service_results[1].status = "WARN" /\ service_results[2].status = "DOWN"

\* the kind text of a definition as configured ("" when absent or None)
ConfiguredKind(cfg) == IF cfg.type.tag = "str" THEN cfg.type.s ELSE ""

Unrecognised(cfg) == Lower(ConfiguredKind(cfg)) \notin {"http", "mysql", "redis"}

ResultsNamed(name) == {j \in 1..Len(service_results) : service_results[j].name = name}

\* the unknown-kind result of definition i, its type and message built on kind
UnknownKindResult(i, kind) ==
  /\ HasResult(i)
  /\ ResultsNamed(services[i].name) = {i}
  /\ service_results[i].status = "WARN"
  /\ service_results[i].latency_ms = None_
  /\ service_results[i].type = (IF kind = "" THEN "unknown" ELSE kind)
  /\ service_results[i].message = "Unknown check type: '" \o kind \o "'"

\* C6 (as claimed): a definition of an unrecognised kind yields one WARN
\* result whose type is the kind string as configured.
C6_UnknownKindEchoed ==
  Backend => \A i \in Processed :
    Unrecognised(services[i].cfg) => UnknownKindResult(i, ConfiguredKind(services[i].cfg))

\* C6 (amended): a definition of an unrecognised kind yields exactly one
\* result, with status WARN, latency_ms null, type the lower-cased kind
\* string ("unknown" when the kind is empty or absent) and a message naming
\* the lower-cased kind; its iteration never raises.
C6_UnknownKindLowered ==
  Backend => \A i \in Processed :
    Unrecognised(services[i].cfg) =>
      UnknownKindResult(i, Lower(ConfiguredKind(services[i].cfg)))

\* C6 witness: a definition of kind "Weird" and one without a kind were run
C6_Witness ==
  /\ Backend /\ Len(service_results) = 2
  /\ services[1].cfg.type = Str("Weird")
  /\ services[2].cfg.type = Absent

\* C7 (as claimed): a definition of kind tcp goes to the TCP probe: type tcp,
\* status UP or DOWN, never the unknown-kind WARN.
C7_TcpKindProbed ==
  Backend => \A i \in Processed :
    Lower(ConfiguredKind(services[i].cfg)) = "tcp" =>
      /\ HasResult(i)
      /\ service_results[i].type = "tcp"
      /\ service_results[i].status \in {"UP", "DOWN"}

HttpDefinition(i) == Lower(ConfiguredKind(services[i].cfg)) = "http"

\* the HTTP target of definition i answered with code, body delivered
Answered(i, code) ==
  /\ HttpDefinition(i)
  /\ wire_log[i].kind = "answer" /\ wire_log[i].code = code /\ wire_log[i].body_ok

\* C8 (as claimed): an answer with a code in [200,400) is reported healthy:
\* UP with message "HTTP <code>" by check_http, ok by the legacy _check_http.
C8_AnswerBelow400Healthy ==
  /\ Backend => \A i \in Processed : \A code \in 200..399 :
       Answered(i, code) =>
         /\ HasResult(i)
         /\ service_results[i].status = "UP"
         /\ service_results[i].message = "HTTP " \o ToString(code)
  /\ Legacy => \A i \in DOMAIN tasks :
       (tasks[i] = "done" /\ task_results[i].type = "http"
          /\ task_results[i].status_code \in 200..399) => task_results[i].ok

\* C9 (as claimed): an answer with a code outside [200,400) makes check_http
\* return WARN with message "HTTP <code>" and a latency, not DOWN.
C9_AnswerFrom400Warn ==
  Backend => \A i \in Processed : \A code \in Codes \ (200..399) :
    Answered(i, code) =>
      /\ HasResult(i)
      /\ service_results[i].status = "WARN"
      /\ service_results[i].message = "HTTP " \o ToString(code)
      /\ service_results[i].latency_ms \in Nat

\* C10: an HTTP definition with a url whose request fails in transport gets a
\* result (check_http does not raise) with status DOWN, a latency_ms that is
\* a non-negative integer and the message "<error-class>: <error-text>".
C10_TransportFailureDown ==
  Backend => \A i \in Processed :
    (HttpDefinition(i) /\ Truthy(Get(services[i].cfg, "url")) /\ wire_log[i].kind = "fail") =>
      /\ HasResult(i)
      /\ service_results[i].status = "DOWN"
      /\ service_results[i].latency_ms \in Nat
      /\ service_results[i].message # ""
      /\ service_results[i].message = wire_log[i].err.cls \o ": " \o wire_log[i].err.text

\* C10 witness: the request of the first definition was refused
C10_Witness ==
  /\ Backend /\ Len(service_results) >= 1
  /\ HttpDefinition(1)
  /\ wire_log[1] = Fail(ConnRefused)

\* definition i has no url: the key is missing, None or the empty string
MissingUrl(i) == HttpDefinition(i) /\ ~Truthy(Get(services[i].cfg, "url"))

\* C11 (as claimed): for an HTTP definition without a url check_http returns
\* DOWN with latency_ms null and a message, and issues no request.
C11_MissingUrlDownNoRequest ==
  Backend => \A i \in Processed :
    MissingUrl(i) =>
      /\ HasResult(i)
      /\ service_results[i].status = "DOWN"
      /\ service_results[i].latency_ms = None_
      /\ service_results[i].message # ""
      /\ wire_log[i] = NoWire
      /\ ops_log[i] = << >>

\* the loop called check_tcp for definition i: its kind is mysql or redis and
\* its port converted
TcpCalled(i) ==
  /\ Lower(ConfiguredKind(services[i].cfg)) \in {"mysql", "redis"}
  /\ IntOf(GetDefault(services[i].cfg, "port", Num(0))).ok

MissingHost(i) == ~Truthy(Get(services[i].cfg, "host"))

\* C12: a call of check_tcp without a host returns DOWN with latency_ms null,
\* and makes no socket call at all: no socket is created, none is connected.
C12_MissingHostDownNoSocket ==
  Backend => \A i \in Processed :
    (TcpCalled(i) /\ MissingHost(i)) =>
      /\ HasResult(i)
      /\ service_results[i].status = "DOWN"
      /\ service_results[i].latency_ms = None_
      /\ wire_log[i] = NoWire
      /\ ops_log[i] = << >>

\* C12 witness: the first definition is a mysql one without a host, and the
\* probe has returned its result
C12_Witness ==
  /\ Backend /\ Len(service_results) >= 1
  /\ TcpCalled(1) /\ MissingHost(1)
  /\ service_results[1].message = "Missing host"

\* C13: a call of check_tcp with a host returns UP with "TCP connect ok"
\* exactly when the connect succeeded and DOWN with the error text otherwise;
\* the type is the kind label of the branch (mysql, redis), never WARN.
C13_TcpUpIffConnected ==
  Backend => \A i \in Processed :
    (TcpCalled(i) /\ ~MissingHost(i)) =>
      /\ HasResult(i)
      /\ service_results[i].type = Lower(ConfiguredKind(services[i].cfg))
      /\ service_results[i].status # "WARN"
      /\ (service_results[i].status = "UP") <=> (wire_log[i].kind = "connected")
      /\ wire_log[i].kind = "connected" => service_results[i].message = "TCP connect ok"
      /\ wire_log[i].kind # "connected" =>
           /\ service_results[i].status = "DOWN"
           /\ service_results[i].message = wire_log[i].err.cls \o ": " \o wire_log[i].err.text

\* C13 witness: a redis definition connected and a mysql one timed out
C13_Witness ==
  /\ Backend /\ Len(service_results) >= 2
  /\ \E i, j \in 1..2 :
       /\ TcpCalled(i) /\ service_results[i].type = "redis" /\ service_results[i].status = "UP"
       /\ TcpCalled(j) /\ service_results[j].type = "mysql" /\ wire_log[j] = Fail(TcpTimeout)

\* the calls of ops that acquire a connection resource, and those that release one
Acquires == {"socket", "open_connection:ok"}
Releases == {"close", "writer.close"}

\* the number of calls of ops that are in set
RECURSIVE Count(_, _)
Count(ops, set) ==
  IF ops = << >> THEN 0
  ELSE (IF Head(ops) \in set THEN 1 ELSE 0) + Count(Tail(ops), set)

\* the resources a probe that made the calls ops still holds
Held(ops) == Count(ops, Acquires) - Count(ops, Releases)

\* C14: a TCP probe that has finished holds no connection resource: every
\* socket check_tcp created is closed when it returns, connected or not, and
\* every writer the legacy _check_tcp got is closed before its next await, so
\* also when the total timeout cancels it.
C14_SocketsReleased ==
  /\ Backend => \A i \in Processed : Held(ops_log[i]) = 0
  /\ Legacy => \A i \in DOMAIN tasks : Held(task_ops[i]) = 0

\* C14 witness: check_tcp created a socket whose connect was refused, and
\* has returned
C14_Witness ==
  /\ Backend /\ Len(service_results) >= 1
  /\ wire_log[1] = Fail(TcpRefused)
  /\ Count(ops_log[1], {"socket"}) = 1

\* disk check i of the configuration got its usage from the filesystem
Readable(i) == disk_log[i].ok

\* the position in disk_results of the entry of disk check i
DiskResultIndex(i) == Cardinality({j \in 1..i : disk_log[j] # NoDiskIO})

\* warn_pct_free_below of disk check i, 10 when the cfg has none
Threshold(i) == GetDefault(disk_checks[i], "warn_pct_free_below", Num(10)).n

\* free_pct >= warn for the usage of disk check i: free/total*100, 0 when total is 0
FreeEnough(i) ==
  IF disk_log[i].total = 0 THEN 0 >= Threshold(i)
  ELSE disk_log[i].free * 100 >= Threshold(i) * disk_log[i].total

\* C15: a disk check whose path could be read is UP when free_pct is at
\* least the threshold and WARN when it is below, free_pct being 0 for a
\* total of 0 (WARN under a positive threshold, no division failure) and the
\* threshold 10 when the cfg has none.
C15_DiskThreshold ==
  Backend => \A i \in 1..Len(disk_log) :
    Readable(i) =>
      /\ DiskResultIndex(i) <= Len(disk_results)
      /\ disk_results[DiskResultIndex(i)].target = Get(disk_checks[i], "path").s
      /\ disk_results[DiskResultIndex(i)].status = (IF FreeEnough(i) THEN "UP" ELSE "WARN")

\* C15 witness: a check without a threshold met a filesystem of total 0 and
\* is WARN, and one with free_pct equal to its threshold is UP
C15_Witness ==
  /\ Backend /\ Len(disk_log) >= 2 /\ Len(disk_results) >= 2
  /\ \E i, j \in 1..2 :
       /\ Readable(i) /\ disk_log[i].total = 0 /\ Threshold(i) = 10
       /\ disk_checks[i].warn_pct_free_below = Absent
       /\ disk_results[i].status = "WARN"
       /\ Readable(j) /\ disk_log[j] = Usage(10, 100) /\ Threshold(j) = 10
       /\ disk_results[j].status = "UP"

\* the filesystem raised for disk check i
Unreadable(i) == ~disk_log[i].ok /\ disk_log[i].exc # NoExc

\* C16: no entry of run_disk_checks is DOWN: each is UP or WARN, and a path
\* the filesystem could not read is WARN with the error text as message.
C16_DiskNeverDown ==
  Backend =>
    /\ \A j \in 1..Len(disk_results) : disk_results[j].status \in {"UP", "WARN"}
    /\ \A i \in 1..Len(disk_log) :
         Unreadable(i) =>
           /\ DiskResultIndex(i) <= Len(disk_results)
           /\ disk_results[DiskResultIndex(i)].status = "WARN"
           /\ disk_results[DiskResultIndex(i)].message =
                disk_log[i].exc.cls \o ": " \o disk_log[i].exc.text

\* C16 witness: the path of the first disk check does not exist
C16_Witness ==
  /\ Backend /\ Len(disk_results) >= 1
  /\ disk_log[1].exc = NoSuchPath
  /\ disk_results[1].latency_ms = None_

\* C17 (as claimed): every configured disk check, one without a path too,
\* has its entry: while run_disk_checks has not raised, the entries are as
\* many as the checks gone through, and once /summary has responded as many
\* as the configured checks, entry i being that of check i.
C17_OneResultPerDiskCheck ==
  (handler = "summary" /\ pc # "raised") =>
    /\ Len(disk_results) = Len(disk_log)
    /\ pc = "done" => Len(disk_results) = Len(disk_checks)

\* every conversion the loops make of a configured field succeeds
ValidDefinitions ==
  /\ \A i \in DOMAIN services :
       /\ FloatOf(GetDefault(services[i].cfg, "timeout_s", Num(2))).ok
       /\ IntOf(GetDefault(services[i].cfg, "port", Num(0))).ok
  /\ \A i \in DOMAIN disk_checks :
       FloatOf(GetDefault(disk_checks[i], "warn_pct_free_below", Num(10))).ok

\* the handler has responded with its report, an entry for every definition
ReportReturned ==
  /\ pc = "done"
  /\ Backend => Len(service_results) = Len(services)
  /\ handler = "summary" => overall \in {"UP", "WARN", "DOWN"}
  /\ Legacy => Len(response) = Len(checks)

\* C18 (as claimed): a run over valid definitions, every probe of which ends,
\* returns its report: it is never left by an exception, and while it has not
\* returned the report it has a step to take.
C18_RunReturnsReport ==
  (handler # "none" /\ ValidDefinitions) =>
    /\ pc # "raised"
    /\ ReportReturned \/ ENABLED Next

\* the probes of the run that have started, and those that have been waited
\* for until they finished their I/O
Started ==
  IF Legacy THEN {i \in DOMAIN tasks : tasks[i] # "new"} ELSE Processed
Finished ==
  IF Legacy THEN {i \in DOMAIN tasks : tasks[i] = "done"}
            ELSE {i \in Processed : wire_log[i] # NoWire}
Batch == IF Legacy THEN DOMAIN checks ELSE DOMAIN services

\* C19 (as claimed): every probe of the batch is started before the
\* dispatcher waits for any of them: once one probe has finished, every
\* probe of the batch has been started.
C19_AllStartedBeforeAnyFinishes ==
  (handler # "none" /\ Finished # {}) => Started = Batch

\* the calls of ops that attempt a connection or a request
Attempts(ops) == Count(ops, {"connect", "urlopen"})

Outcome(rs) ==
  [i \in 1..Len(rs) |-> <<rs[i].name, rs[i].type, rs[i].target, rs[i].status>>]

WellFormed(r) ==
  /\ DOMAIN r = {"name", "type", "target", "status", "latency_ms", "message"}
  /\ r.status \in {"UP", "WARN", "DOWN"}
  /\ r.latency_ms = None_ \/ r.latency_ms \in Nat

\* definition i went to check_http or check_tcp, which returned
Probed(i) ==
  /\ HasResult(i)
  /\ Lower(ConfiguredKind(services[i].cfg)) \in {"http", "mysql", "redis"}

\* the probe of definition i could not start: its url or its host is missing
CouldNotStart(i) == IF HttpDefinition(i) THEN MissingUrl(i) ELSE MissingHost(i)

\* C22: every result of a probe, of the dispatcher and of the disk checks has
\* the six fields, a status among UP, WARN, DOWN and a latency_ms that is
\* null or a non-negative integer; the result of an HTTP or TCP probe has a
\* null latency_ms exactly when the url or host is missing, which is exactly
\* when the probe made no I/O call.
C22_ResultShape ==
  Backend =>
    /\ \A j \in 1..Len(service_results) : WellFormed(service_results[j])
    /\ \A j \in 1..Len(disk_results) : WellFormed(disk_results[j])
    /\ \A i \in Processed :
         Probed(i) =>
           /\ (service_results[i].latency_ms = None_) <=> CouldNotStart(i)
           /\ CouldNotStart(i) <=> (wire_log[i] = NoWire /\ ops_log[i] = << >>)

\* C22 witness: an HTTP definition without a url got a null latency, and a
\* redis definition whose connect was refused at once a latency of 0
C22_Witness ==
  /\ Backend /\ Len(service_results) >= 2
  /\ \E i, j \in 1..2 :
       /\ Probed(i) /\ MissingUrl(i) /\ service_results[i].latency_ms = None_
       /\ Probed(j) /\ service_results[j].type = "redis"
       /\ wire_log[j] = Fail(TcpRefused) /\ service_results[j].latency_ms = 0

\* C23: the kind is matched whatever its case: a definition whose type
\* lower-cases to http gets the result of check_http, one whose type
\* lower-cases to mysql or redis the result of check_tcp under that label,
\* and any other the WARN result whose type is the lower-cased kind
\* ("unknown" for an empty one), not the string as configured.
C23_KindMatchedCaseInsensitively ==
  Backend => \A i \in Processed :
    HasResult(i) =>
      LET kind == Lower(ConfiguredKind(services[i].cfg))
          r == service_results[i]
      IN  /\ kind = "http" =>
               /\ r.type = "http"
               /\ IF MissingUrl(i) THEN r.message = "Missing 'url' in config"
                                   ELSE r.latency_ms \in Nat
          /\ kind \in {"mysql", "redis"} =>
               /\ r.type = kind
               /\ r.status \in {"UP", "DOWN"}
          /\ kind \notin {"http", "mysql", "redis"} =>
               /\ r.status = "WARN"
               /\ r.type = (IF kind = "" THEN "unknown" ELSE kind)

\* C23 witness: a definition of type "HTTP" and one of type "MySQL" have the
\* results of the http and the mysql probe
C23_Witness ==
  /\ Backend /\ Len(service_results) = 2
  /\ \E i, j \in 1..2 :
       /\ ConfiguredKind(services[i].cfg) = "HTTP" /\ service_results[i].type = "http"
       /\ ConfiguredKind(services[j].cfg) = "MySQL" /\ service_results[j].type = "mysql"
       /\ service_results[j].message = "Missing host"

====
